---- MODULE Spec2Model ----
(***************************************************************************)
(* Model of the graph construction pipeline (GraphConstructor,             *)
(* src/data_collection/graph_construction.py) and of the GNN training      *)
(* harness (GNNTrainer, src/models/gnn_training.py).                       *)
(*                                                                         *)
(* Representation.                                                         *)
(*  - A string is the sequence of its whitespace separated words; '' is    *)
(*    <<>>.  A missing CSV cell is the float NaN of pandas, NaN below.      *)
(*  - A feature matrix is a record: shape <<rows, columns>> and, for the   *)
(*    textual block, the column names and one row (a function from the     *)
(*    column names to the entry) per event.                                *)
(*  - A similarity value s in [0,1] is kept exactly, as the reduced        *)
(*    fraction <<p, q>> of its square (s*s = p/q): cosines are square      *)
(*    roots of rationals, and comparing s with a threshold is comparing    *)
(*    the squares.  Thresholds and random draws are in hundredths.         *)
(*  - Rows and nodes are numbered from 1 (the code numbers them from 0).   *)
(***************************************************************************)
EXTENDS Integers, Sequences, FiniteSets, TLC

VARIABLES
    \* GraphConstructor
    data_dir,             \* self.data_dir: None, or the directory as the file system has it
    selected_file,        \* the file load_data has chosen (None: none yet)
    output,               \* output_dir: the graph files and graph_metadata.json
    rfc,                  \* run_full_construction: where it stands, graphs_created, what
                          \* it returned, the stage that raised ("idle": it is not running)
    df,                   \* self.df: the rows of the table
    columns,              \* self.df.columns
    loaded,               \* load_data has returned True
    tfidf_features,       \* self.tfidf_features
    categorical_features, \* self.categorical_features
    numerical_features,   \* self.numerical_features
    label_encoders,       \* self.label_encoders
    graphs,               \* self.graphs
    stats,                \* self.stats
    sim_call,             \* the last create_event_similarity_graph on the table as it is:
                          \* arguments, course, returned G (None: no call yet)
    hetero_call,          \* the last create_heterogeneous_graph on the table as it is:
                          \* its locals, whether it returned a graph (None: no call yet)
    \* GNNTrainer
    t_graphs,             \* self.graphs of the trainer
    models,               \* self.models
    results,              \* self.results
    saved,                \* the model files save_results has written
    rng,                  \* the state of numpy's global generator in the trainer process
    calls,                \* the number of GNNTrainer methods called so far
    rft,                  \* where run_full_training stands ("idle": it is not running)
    t_call                \* the last GNNTrainer method: arguments, course, what it returned

cvars == <<data_dir, selected_file, output, rfc,
           df, columns, loaded, tfidf_features, categorical_features,
           numerical_features, label_encoders, graphs, stats, sim_call,
           hetero_call>>
tvars == <<t_graphs, models, results, saved, rng, calls, rft, t_call>>
vars == <<cvars, tvars>>

\* ------------------------------------------------------------------ bounds
\* Rows of a table drawn from the whole EventPool.
MaxEvents == 2
\* Rows of a table drawn from TextPool (enough pairs for the 10-edge rule).
MaxTextEvents == 7
\* Rows of the identical-events scenario table.
ScenarioEvents == 12
\* The states of numpy's global generator that a draw may start from: 0..MaxSeed.
MaxSeed == 2
\* Entries of a data directory.
MaxFiles == 2
\* Rows of a table read by run_full_construction.
MaxRunEvents == 2

\* ------------------------------------------------------------- basic values
None == [none |-> TRUE]
NaN == <<"NaN">>
isna(v) == v = NaN
fillna(v, d) == IF isna(v) THEN d ELSE v
\* str(v): NaN prints as 'nan'
str(v) == IF isna(v) THEN <<"nan">> ELSE v

Range(f) == {f[x] : x \in DOMAIN f}
Max(a, b) == IF a >= b THEN a ELSE b
Min(a, b) == IF a <= b THEN a ELSE b

RECURSIVE GCD(_, _)
GCD(a, b) == IF b = 0 THEN a ELSE GCD(b, a % b)
\* the reduced fraction p/q (q > 0)
Reduce(p, q) == LET g == GCD(p, q) IN <<p \div g, q \div g>>

RECURSIVE SumOver(_, _)
\* the sum of f[x] over the finite set S
SumOver(f, S) ==
    IF S = {} THEN 0
    ELSE LET x == CHOOSE y \in S : TRUE IN f[x] + SumOver(f, S \ {x})

\* ------------------------------------------------------------------ inputs
\* The rows the CSV files of the data directory are made of.
EventPool == {
    [id |-> 1, title |-> <<"jazz">>, description |-> NaN, category |-> <<"music">>,
     organizer |-> <<"org1">>, location |-> <<"hall">>, is_free |-> 1],
    [id |-> 2, title |-> <<"jazz", "rock">>, description |-> NaN, category |-> <<"music">>,
     organizer |-> <<"org2">>, location |-> <<"hall">>, is_free |-> 0],
    [id |-> 3, title |-> <<"jazz", "rock", "film">>, description |-> <<"the", "7">>,
     category |-> <<"cinema">>, organizer |-> NaN, location |-> <<"club">>, is_free |-> 1],
    [id |-> 4, title |-> NaN, description |-> NaN, category |-> NaN,
     organizer |-> <<"org1">>, location |-> NaN, is_free |-> 0],
    [id |-> 5, title |-> NaN, description |-> NaN, category |-> <<"jazz">>,
     organizer |-> NaN, location |-> <<"club">>, is_free |-> 1],
    [id |-> 6, title |-> NaN, description |-> NaN, category |-> <<"7">>,
     organizer |-> <<"org2">>, location |-> <<"hall">>, is_free |-> 0] }
TextPool == {e \in EventPool : e.id \in 1..3}
EmptyTextPool == {e \in EventPool : isna(e.title) /\ isna(e.description)}

AllColumns == {"title", "description", "category", "organizer", "location", "is_free"}
ColumnSets == { AllColumns,
                AllColumns \ {"category"},
                AllColumns \ {"organizer", "location", "is_free"},
                {"title", "is_free"} }

\* Tables of n rows of pool, rows in pool order.
TablesOf(pool, n) ==
    {t \in [1..n -> pool] : \A i \in 1..(n - 1) : t[i].id <= t[i + 1].id}
\* The CSV files the data directory may hold, each a (never empty) table
\* and its columns: short tables of any rows with any of the column sets,
\* longer tables of the TextPool rows without a category column, and the
\* tables of ScenarioEvents identical rows with empty title and description.
CsvFiles ==
    ((UNION {TablesOf(EventPool, n) : n \in 1..MaxEvents}) \X ColumnSets)
    \cup ((UNION {TablesOf(TextPool, n) : n \in 1..MaxTextEvents}) \X {AllColumns \ {"category"}})
    \cup ({[i \in 1..ScenarioEvents |-> e] : e \in EmptyTextPool} \X ColumnSets)

\* A directory is missing, or holds entries (regular files) in the order
\* iterdir yields them, each with its name and its modification time.
Missing == [exists |-> FALSE]
Dir(files) == [exists |-> TRUE, files |-> files]
FileNames == {"events_gnn_ready.csv", "events_cleaned_1.csv", "other.csv", "notes.txt"}
Listings ==
    UNION {{l \in [1..n -> [name : FileNames, mtime : 1..n]] :
                \A i, j \in 1..n : i # j => l[i].name # l[j].name /\ l[i].mtime # l[j].mtime}
           : n \in 0..MaxFiles}
DirStates == {Missing} \cup {Dir(l) : l \in Listings}
\* The data directory of the runs that start from a loaded table.
StandardDir == Dir(<<[name |-> "events_gnn_ready.csv", mtime |-> 1]>>)

\* item.suffix == '.csv'
IsCsv(name) == name \in {"events_gnn_ready.csv", "events_cleaned_1.csv", "other.csv"}
\* priority in file.name, for the names of FileNames
Contains(name, priority) ==
    \/ priority = "events_gnn_ready.csv" /\ name = "events_gnn_ready.csv"
    \/ priority = "events_cleaned_" /\ name = "events_cleaned_1.csv"
    \/ priority = ".csv" /\ IsCsv(name)

\* lines 43-63: the number of paths find_cleaned_data_dir probes
NumCandidates == 10
\* path.exists() and list(path.glob("*.csv"))
HoldsCsv(d) == d.exists /\ \E k \in DOMAIN d.files : IsCsv(d.files[k].name)
\* find_cleaned_data_dir: the first of the probed paths that exists and
\* holds a CSV file, None when there is none
find_cleaned_data_dir(possible_paths) ==
    IF \E k \in DOMAIN possible_paths : HoldsCsv(possible_paths[k])
    THEN possible_paths[CHOOSE k \in DOMAIN possible_paths :
                            /\ HoldsCsv(possible_paths[k])
                            /\ \A l \in DOMAIN possible_paths : HoldsCsv(possible_paths[l]) => k <= l]
    ELSE None
\* What the probed paths may be in the working directory: the third and the
\* seventh may exist, the third with at most one entry.
WorkingDirs ==
    {[k \in 1..NumCandidates |-> IF k = 3 THEN a ELSE IF k = 7 THEN b ELSE Missing] :
        a \in {d \in DirStates : d.exists => Len(d.files) <= 1}, b \in DirStates}
\* lines 23-26: self.data_dir after __init__(data_dir)
InitDataDir(data_dir_arg, possible_paths) ==
    IF data_dir_arg = None THEN find_cleaned_data_dir(possible_paths) ELSE data_dir_arg

\* Mutant of FilesFound: every entry of the directory is taken for a CSV file.
FilesFoundAnySuffix(d) == d.files
\* lines 97-101: the CSV files of the directory, in iterdir order
FilesFound(d) == SelectSeq(d.files, LAMBDA f : IsCsv(f.name))
\* lines 108-112
file_priorities == <<"events_gnn_ready.csv", "events_cleaned_", ".csv">>
\* the files whose name contains the priority, in iterdir order
Matching(files, priority) == SelectSeq(files, LAMBDA f : Contains(f.name, priority))
\* lines 114-125: the first file of the first priority that any file
\* matches; the first file when no priority matches
SelectFile(files) ==
    LET matched == {p \in DOMAIN file_priorities : Matching(files, file_priorities[p]) # <<>>}
    IN IF matched = {} THEN files[1]
       ELSE LET p == CHOOSE q \in matched : \A r \in matched : q <= r
            IN Matching(files, file_priorities[p])[1]

\* The rows of the tables run_full_construction is run on: numeric is_free
\* cells, or cells that hold a word ('free'), written -1, in every row (pandas
\* then reads the column as strings).
NumericRows == {e \in EventPool : e.id \in {1, 4}}
WordRows ==
    {[e EXCEPT !.is_free = -1] : e \in NumericRows}
    \cup {[e EXCEPT !.is_free = -1, !.organizer = NaN, !.location = NaN] :
            e \in {x \in EventPool : x.id = 5}}
\* The CSV files run_full_construction may find: tables of 0..MaxRunEvents
\* rows (0: a file with the header line only) ...
RunFiles ==
    (UNION {TablesOf(NumericRows, n) \cup TablesOf(WordRows, n) : n \in 0..MaxRunEvents})
    \X {AllColumns, {"title", "is_free"}}
\* ... and a file of zero bytes, on which read_csv raises EmptyDataError
EmptyFile == <<<<>>, {}>>

\* Thresholds create_event_similarity_graph is called with, in hundredths
\* (5 is the floor 0.05, 10 the default 0.1).
Thresholds == {5, 10, 45, 60}
Seeds == 0..MaxSeed

\* ------------------------------------------------- TfidfVectorizer (sklearn)
\* Program constants of the vectorizer call and of the fallbacks.
max_features == 50
DummyWidth == 10
\* Words that match token_pattern \b[a-zA-Z]{2,}\b as a whole ("7" does not).
TokenWords == {"jazz", "rock", "film", "music", "cinema", "the"}
\* stop_words='english', as far as the words of the pool go.
StopWords == {"the"}

IsToken(w) == w \in TokenWords
NotStopWord(w) == w \notin StopWords
\* the analyzer: tokens of the pattern, stop words removed
Tokenize(doc) == SelectSeq(SelectSeq(doc, IsToken), NotStopWord)
\* ngram_range=(1, 2): the unigrams and the bigrams of adjacent tokens
NGrams(doc) ==
    LET tk == Tokenize(doc) IN
    {<<tk[i]>> : i \in 1..Len(tk)} \cup {<<tk[i], tk[i + 1]>> : i \in 1..(Len(tk) - 1)}
\* how often term g occurs in doc
TermCount(doc, g) ==
    LET tk == Tokenize(doc) IN
    IF Len(g) = 1 THEN Cardinality({i \in 1..Len(tk) : tk[i] = g[1]})
    ELSE Cardinality({i \in 1..(Len(tk) - 1) : tk[i] = g[1] /\ tk[i + 1] = g[2]})
\* the terms of the corpus, cut to the max_features most frequent ones
Vocabulary(docs) ==
    LET all == UNION {NGrams(docs[i]) : i \in DOMAIN docs}
        freq == [g \in all |-> SumOver([i \in DOMAIN docs |-> TermCount(docs[i], g)], DOMAIN docs)]
    IN IF Cardinality(all) <= max_features THEN all
       ELSE CHOOSE S \in SUBSET all :
              /\ Cardinality(S) = max_features
              /\ \A a \in S, b \in all \ S : freq[a] >= freq[b]
\* Mutant of FitTransform: the vectorizer is fitted on the non-empty texts only.
FitTransformNonEmpty(docs) ==
    LET kept == SelectSeq(docs, LAMBDA d : Len(d) > 0)
        voc == Vocabulary(kept)
    IN [shape |-> <<Len(kept), Cardinality(voc)>>,
        names |-> voc,
        m     |-> [i \in DOMAIN kept |-> [g \in voc |-> TermCount(kept[i], g)]]]
\* fit_transform(docs).toarray(): one row per document, one column per term
\* of the vocabulary; raises ValueError on an empty vocabulary.  The entry
\* is the term's count in the document: sklearn's idf weight and row
\* normalisation scale it by positive factors and are not modelled.
VectorizerRaises(docs) == Vocabulary(docs) = {}
FitTransform(docs) ==
    LET voc == Vocabulary(docs) IN
    [shape |-> <<Len(docs), Cardinality(voc)>>,
     names |-> voc,
     m     |-> [i \in DOMAIN docs |-> [g \in voc |-> TermCount(docs[i], g)]]]

\* Mutant of DummyFeatures: the fallback block is one column wide, as the
\* fallback of the other two blocks is.
DummyFeaturesOneColumn(n) ==
    [shape |-> <<n, 1>>,
     names |-> {<<"dummy_feature", 0>>},
     m     |-> [i \in 1..n |-> [g \in {<<"dummy_feature", 0>>} |-> 1]]]
\* np.ones((n, 10)) with feature_names dummy_feature_0..9
DummyFeatures(n) ==
    [shape |-> <<n, DummyWidth>>,
     names |-> {<<"dummy_feature", k>> : k \in 0..(DummyWidth - 1)},
     m     |-> [i \in 1..n |-> [g \in {<<"dummy_feature", k>> : k \in 0..(DummyWidth - 1)} |-> 1]]]
\* np.zeros((n, 1))
Zeros(n) == [shape |-> <<n, 1>>]

\* ------------------------------------------------------ prepare_*_features
TextColumns == <<"title", "description", "category">>
\* the columns of TextColumns the table has, in that order
PresentText(cols) == SelectSeq(TextColumns, LAMBDA c : c \in cols)

RECURSIVE JoinParts(_, _, _)
\* combined_parts[k] + ' ' + ... + combined_parts[n], stripped: the words of the parts
JoinParts(row, parts, k) ==
    IF k > Len(parts) THEN <<>>
    ELSE str(fillna(row[parts[k]], <<>>)) \o JoinParts(row, parts, k + 1)

\* df['combined_text'] of one row
CombinedText(row, cols) == JoinParts(row, PresentText(cols), 1)

\* One vectorisation block of prepare_text_features (lines 215-242, and
\* again 244-271): the dummy matrix when every text is empty or the
\* vectorizer raises, the TF-IDF matrix otherwise.
TextBlock(docs) ==
    LET non_empty == {i \in DOMAIN docs : Len(docs[i]) > 0} IN
    IF Cardinality(non_empty) = 0 THEN DummyFeatures(Len(docs))
    ELSE IF VectorizerRaises(docs) THEN DummyFeatures(Len(docs))
    ELSE FitTransform(docs)

\* Mutant of prepare_text_features: the category is left out of the combined text.
prepare_text_features_no_category(t, cols) ==
    LET cols0 == cols \ {"category"} IN
    IF Len(PresentText(cols0)) = 0 THEN DummyFeatures(Len(t))
    ELSE LET docs == [i \in DOMAIN t |-> CombinedText(t[i], cols0)] IN TextBlock(docs)
\* prepare_text_features: the new self.tfidf_features; t is the table, cols its columns
prepare_text_features(t, cols) ==
    IF Len(PresentText(cols)) = 0 THEN DummyFeatures(Len(t))
    ELSE LET docs == [i \in DOMAIN t |-> CombinedText(t[i], cols)]
             first == TextBlock(docs)
             all_empty == \A i \in DOMAIN docs : Len(docs[i]) = 0
         IN \* the first block returns when every text is empty; else the
            \* second, identical block overwrites the result of the first
            IF all_empty THEN first ELSE TextBlock(docs)

CategoricalColumns == <<"category", "organizer", "location", "source">>
AvailableCategorical(cols) == SelectSeq(CategoricalColumns, LAMBDA c : c \in cols)
\* fillna('Unknown').astype(str).replace('', 'Unknown')
CleanCategory(v) ==
    LET s == str(fillna(v, <<"Unknown">>)) IN IF s = <<>> THEN <<"Unknown">> ELSE s
\* LabelEncoder().fit(column).classes_
Classes(t, c) == {CleanCategory(t[i][c]) : i \in DOMAIN t}
\* prepare_categorical_features: the new self.categorical_features
prepare_categorical_features(t, cols) ==
    LET available == AvailableCategorical(cols) IN
    IF Len(available) = 0 THEN Zeros(Len(t))
    ELSE [shape |-> <<Len(t), Len(available)>>]
\* ... and the new self.label_encoders
FitLabelEncoders(t, cols) ==
    LET available == AvailableCategorical(cols) IN
    [c \in Range(available) |-> Classes(t, c)]

\* prepare_numerical_features: the new self.numerical_features.  The
\* columns: title length, description length, is_free (or zeros),
\* has_valid_date (or zeros), combined text length.
NumericalColumns(cols) ==
    (IF "title" \in cols THEN {"title_len"} ELSE {})
    \cup (IF "description" \in cols THEN {"desc_len"} ELSE {})
    \cup {"is_free", "has_valid_date"}
    \cup (IF "combined_text" \in cols THEN {"combined_len"} ELSE {})
prepare_numerical_features(t, cols) ==
    LET numerical == NumericalColumns(cols) IN
    IF numerical # {} THEN [shape |-> <<Len(t), Cardinality(numerical)>>]
    ELSE Zeros(Len(t))

\* ---------------------------------------------- create_event_similarity_graph
\* Program constants of the auto-relaxation rule (hundredths for the threshold).
MinEdges == 10
RelaxedThreshold == 5
DefaultThreshold == 10
\* How deep the model follows the recursion of create_event_similarity_graph.
MaxDepth == 3

\* similarity s = sqrt(sim[1] / sim[2]) exceeds the threshold t / 100
GreaterThan(sim, t) == sim[1] * 10000 > t * t * sim[2]
One == <<1, 1>>
Zero == <<0, 1>>

Dot(a, b, names) == SumOver([g \in names |-> a[g] * b[g]], names)
\* sklearn's cosine_similarity of two rows: rows are normalised first, a
\* zero row stays zero and has similarity 0 with every row
Cosine(a, b, names) ==
    LET ab == Dot(a, b, names)
        aa == Dot(a, a, names)
        bb == Dot(b, b, names)
    IN IF aa = 0 \/ bb = 0 THEN Zero ELSE Reduce(ab * ab, aa * bb)
cosine_similarity(tf) ==
    LET n == tf.shape[1] IN
    [i \in 1..n |-> [j \in 1..n |-> Cosine(tf.m[i], tf.m[j], tf.names)]]

\* One entry of np.random.rand(n, n), in hundredths (0..99), drawn by the
\* global generator in state seed.
RandValue(seed, i, j) == ((seed + 1) * (i * 13 + j * 7) * 17 + seed * 29) % 100
\* np.random.rand(n, n) followed by np.fill_diagonal(similarity_matrix, 1.0)
RandomSimilarity(n, seed) ==
    [i \in 1..n |-> [j \in 1..n |->
        IF i = j THEN One
        ELSE LET r == RandValue(seed, i, j) IN Reduce(r * r, 10000)]]

\* cosine_similarity (sklearn's check_array) raises ValueError on a matrix
\* of zero rows
SimilarityRaises(tf) == tf.shape[2] > 1 /\ tf.shape[1] = 0
\* Mutant of SimilarityMatrix: the similarity is random for every width.
SimilarityMatrixRandom(tf, seed) == RandomSimilarity(tf.shape[1], seed)
\* lines 372-377: the similarity matrix of the textual block
SimilarityMatrix(tf, seed) ==
    IF tf.shape[2] > 1 THEN cosine_similarity(tf)
    ELSE RandomSimilarity(tf.shape[1], seed)

\* Mutant of SimilarityEdges: a similarity equal to the threshold makes an edge too.
SimilarityEdgesAtLeast(sim, n, t) ==
    {e \in (1..n) \X (1..n) : e[1] < e[2] /\ sim[e[1]][e[2]][1] * 10000 >= t * t * sim[e[1]][e[2]][2]}
\* Mutant of SimilarityEdges: the comparison with the threshold is reversed.
SimilarityEdgesBelow(sim, n, t) ==
    {e \in (1..n) \X (1..n) : e[1] < e[2] /\ ~GreaterThan(sim[e[1]][e[2]], t)}
\* lines 396-403: the edges of G and their weights
SimilarityEdges(sim, n, t) ==
    {e \in (1..n) \X (1..n) : e[1] < e[2] /\ GreaterThan(sim[e[1]][e[2]], t)}
\* Mutant of BuildGraph: every edge gets the weight 1.0.
BuildGraphUnitWeight(sim, n, t) ==
    LET edges == SimilarityEdges(sim, n, t) IN
    [nodes |-> n, edges |-> edges, weight |-> [e \in edges |-> One]]
BuildGraph(sim, n, t) ==
    LET edges == SimilarityEdges(sim, n, t) IN
    [nodes |-> n, edges |-> edges, weight |-> [e \in edges |-> sim[e[1]][e[2]]]]

\* Mutant of NeedsRelaxation: too few edges trigger a rebuild at any threshold.
NeedsRelaxationNoFloor(G, t) == Cardinality(G.edges) < MinEdges
\* lines 407-410: too few edges and a threshold above the floor
NeedsRelaxation(G, t) == Cardinality(G.edges) < MinEdges /\ t > RelaxedThreshold

\* the generator state after one np.random.rand(n, n)
NextSeed(seed) == (seed + 1) % (MaxSeed + 1)

RECURSIVE SimilarityGraph(_, _, _, _)
\* The graph G that create_event_similarity_graph(t) ends with, the
\* threshold it was built with, the number of builds and the edge count of
\* the build of this call (first); seed is the generator state at this
\* build, depth the number of this build.  A recursion deeper than MaxDepth
\* is reported as diverged.
SimilarityGraph(tf, t, seed, depth) ==
    LET sim == SimilarityMatrix(tf, seed)
        G == BuildGraph(sim, tf.shape[1], t)
        first == Cardinality(G.edges)
    IN IF NeedsRelaxation(G, t)
       THEN IF depth < MaxDepth
            THEN [SimilarityGraph(tf, RelaxedThreshold,
                                  IF tf.shape[2] > 1 THEN seed ELSE NextSeed(seed), depth + 1)
                    EXCEPT !.first = first]
            ELSE [diverged |-> TRUE, G |-> G, threshold |-> t, builds |-> depth, first |-> first,
                  sim |-> sim]
       ELSE [diverged |-> FALSE, G |-> G, threshold |-> t, builds |-> depth, first |-> first,
             sim |-> sim]

\* np.concatenate([...], axis=1): the shape of the full feature matrix
AllFeaturesShape(tf, cf, nf) == <<tf.shape[1], tf.shape[2] + cf.shape[2] + nf.shape[2]>>

\* lines 412-430: the PyTorch Geometric object (from_networkx gives both
\* directions of every edge; an edgeless graph gets an empty edge index)
ToData(G, xshape) ==
    [kind |-> "Data",
     num_nodes |-> xshape[1],
     edge_index |-> G.edges \cup {<<e[2], e[1]>> : e \in G.edges},
     x |-> xshape]

\* lines 433-438
SimilarityStats(G) ==
    LET e == Cardinality(G.edges) IN
    [nodes |-> G.nodes,
     edges |-> e,
     density |-> IF e > 0 THEN Reduce(2 * e, G.nodes * (G.nodes - 1)) ELSE Zero,
     avg_degree |-> IF G.nodes > 0 THEN Reduce(2 * e, G.nodes) ELSE Zero]

\* ------------------------------------------------- create_heterogeneous_graph
RECURSIVE Unique(_)
\* pandas unique(): the distinct values in order of first appearance
Unique(seq) ==
    IF seq = <<>> THEN <<>>
    ELSE LET front == Unique(SubSeq(seq, 1, Len(seq) - 1))
             last == seq[Len(seq)]
         IN IF last \in Range(front) THEN front ELSE Append(front, last)

\* lines 464-468 and 491-495: the node names of an entity column, or the
\* single default node when the table has no such column
EntityNodes(t, cols, col, default) ==
    IF col \in cols
    THEN LET values == [i \in DOMAIN t |-> t[i][col]]
             present == Unique(SelectSeq(values, LAMBDA v : ~isna(v)))
         IN SelectSeq([k \in DOMAIN present |-> str(present[k])], LAMBDA v : v # <<"nan">>)
    ELSE <<default>>
\* {name: idx for idx, name in enumerate(names)}
IndexMap(names) ==
    [v \in Range(names) |->
        CHOOSE k \in DOMAIN names : names[k] = v /\ \A l \in DOMAIN names : names[l] = v => l <= k]

\* the rows of an entity: self.df[self.df[col].astype(str) == name], or the
\* whole table when the column is absent
EntityEvents(t, cols, col, name) ==
    IF col \in cols THEN {i \in DOMAIN t : str(t[i][col]) = name} ELSE DOMAIN t
\* len(events)
EventCount(events) == <<Cardinality(events), 1>>
\* events.get('is_free', pd.Series([0])).mean(), a fraction; the mean of no
\* cell is the float nan, written 0/0
MeanFree(t, cols, events) ==
    IF "is_free" \in cols
    THEN IF events = {} THEN <<0, 0>>
         ELSE Reduce(SumOver([i \in events |-> t[i]["is_free"]], events), Cardinality(events))
    ELSE Zero
\* a cell of the is_free column that holds a word
IsWord(v) == v < 0
\* len(events.get('category', pd.Series(['Unknown'])).unique())
CategoryCount(t, cols, events) ==
    IF "category" \in cols THEN <<Cardinality({t[i]["category"] : i \in events}), 1>>
    ELSE One
\* lines 480-484
OrganizerFeatures(t, cols, name) ==
    LET events == EntityEvents(t, cols, "organizer", name) IN
    <<EventCount(events), MeanFree(t, cols, events), CategoryCount(t, cols, events)>>
\* lines 507-511
VenueFeatures(t, cols, name) ==
    LET events == EntityEvents(t, cols, "location", name) IN
    <<EventCount(events), CategoryCount(t, cols, events), MeanFree(t, cols, events)>>

\* Mutant of EntityEdges: an unmapped row gets an edge to the first node.
EntityEdgesDefaultIndex(t, cols, col, to_idx) ==
    IF col \in cols
    THEN [i \in DOMAIN t |-> <<i, IF str(t[i][col]) \in DOMAIN to_idx
                                  THEN to_idx[str(t[i][col])] ELSE 1>>]
    ELSE <<>>
\* lines 517-524 and 530-537: one edge [event, node] per row whose string
\* is a key of the index map, in row order
EntityEdges(t, cols, col, to_idx) ==
    IF col \in cols
    THEN LET rows == SelectSeq([i \in DOMAIN t |-> i],
                               LAMBDA i : str(t[i][col]) \in DOMAIN to_idx)
         IN [k \in DOMAIN rows |-> <<rows[k], to_idx[str(t[rows[k]][col])]>>]
    ELSE <<>>

\* lines 482 and 510: mean() raises TypeError on the is_free cells of an
\* organizer's or a venue's events when they hold words
HeteroRaises(t, cols) ==
    /\ "is_free" \in cols
    /\ LET organizers == EntityNodes(t, cols, "organizer", <<"Unknown_Organizer">>)
           venues == EntityNodes(t, cols, "location", <<"Unknown_Venue">>)
       IN \/ \E k \in DOMAIN organizers :
                \E i \in EntityEvents(t, cols, "organizer", organizers[k]) : IsWord(t[i]["is_free"])
          \/ \E k \in DOMAIN venues :
                \E i \in EntityEvents(t, cols, "location", venues[k]) : IsWord(t[i]["is_free"])

\* Mutant of HeteroLocals: the node lists are kept from the previous call and extended.
HeteroLocalsAccumulating(t, cols) ==
    LET kept_org == IF hetero_call # None /\ hetero_call.ok THEN hetero_call.organizers ELSE <<>>
        kept_ven == IF hetero_call # None /\ hetero_call.ok THEN hetero_call.venues ELSE <<>>
        organizers == kept_org \o EntityNodes(t, cols, "organizer", <<"Unknown_Organizer">>)
        venues == kept_ven \o EntityNodes(t, cols, "location", <<"Unknown_Venue">>)
        organizer_to_idx == IndexMap(organizers)
        venue_to_idx == IndexMap(venues)
    IN [organizers |-> organizers,
        venues |-> venues,
        organizer_to_idx |-> organizer_to_idx,
        venue_to_idx |-> venue_to_idx,
        organizer_features |-> [k \in DOMAIN organizers |-> OrganizerFeatures(t, cols, organizers[k])],
        venue_features |-> [k \in DOMAIN venues |-> VenueFeatures(t, cols, venues[k])],
        event_org_edges |-> EntityEdges(t, cols, "organizer", organizer_to_idx),
        event_venue_edges |-> EntityEdges(t, cols, "location", venue_to_idx)]
\* the locals of create_heterogeneous_graph
HeteroLocals(t, cols) ==
    LET organizers == EntityNodes(t, cols, "organizer", <<"Unknown_Organizer">>)
        venues == EntityNodes(t, cols, "location", <<"Unknown_Venue">>)
        organizer_to_idx == IndexMap(organizers)
        venue_to_idx == IndexMap(venues)
    IN [organizers |-> organizers,
        venues |-> venues,
        organizer_to_idx |-> organizer_to_idx,
        venue_to_idx |-> venue_to_idx,
        organizer_features |-> [k \in DOMAIN organizers |-> OrganizerFeatures(t, cols, organizers[k])],
        venue_features |-> [k \in DOMAIN venues |-> VenueFeatures(t, cols, venues[k])],
        event_org_edges |-> EntityEdges(t, cols, "organizer", organizer_to_idx),
        event_venue_edges |-> EntityEdges(t, cols, "location", venue_to_idx)]

\* the HeteroData object (an edge type is stored only when it has edges)
HeteroData(loc, n, xshape) ==
    [kind |-> "HeteroData",
     event |-> [x |-> xshape, num_nodes |-> n],
     organizer |-> [x |-> loc.organizer_features, num_nodes |-> Len(loc.organizers)],
     venue |-> [x |-> loc.venue_features, num_nodes |-> Len(loc.venues)],
     edge_types |-> (IF loc.event_org_edges # <<>> THEN {"organized_by"} ELSE {})
                    \cup (IF loc.event_venue_edges # <<>> THEN {"located_at"} ELSE {}),
     organized_by |-> loc.event_org_edges,
     located_at |-> loc.event_venue_edges]
\* lines 548-554
HeteroStats(h, loc) ==
    [event_nodes |-> h.event.num_nodes,
     organizer_nodes |-> h.organizer.num_nodes,
     venue_nodes |-> h.venue.num_nodes,
     event_org_edges |-> Len(loc.event_org_edges),
     event_venue_edges |-> Len(loc.event_venue_edges)]

\* --------------------------------------------------- GraphConstructor: state
EmptyMap == [k \in {} |-> None]
\* d[k] = v
Put(d, k, v) == [x \in DOMAIN d \cup {k} |-> IF x = k THEN v ELSE d[x]]

\* the feature attributes exist (prepare_features has run)
Prepared == tfidf_features # None

\* the generator states a create_event_similarity_graph call may start in
\* (the state matters only when the similarity matrix is drawn at random)
SeedChoices == IF Prepared /\ tfidf_features.shape[2] <= 1 THEN Seeds ELSE {0}

\* lines 22-36: the object after __init__, with dir for self.data_dir
Constructed(dir) ==
    /\ data_dir = dir
    /\ selected_file = None
    /\ output = [files |-> {}, metadata |-> None]
    /\ rfc = [pc |-> "idle", graphs_created |-> 0, returned |-> "none", raised |-> "none"]
    /\ df = <<>>
    /\ columns = {}
    /\ loaded = FALSE
    /\ tfidf_features = None
    /\ categorical_features = None
    /\ numerical_features = None
    /\ label_encoders = EmptyMap
    /\ graphs = EmptyMap
    /\ stats = EmptyMap
    /\ sim_call = None
    /\ hetero_call = None
ConstructorInit == Constructed(StandardDir)

\* ------------------------------------------------- GraphConstructor: actions
\* load_data: reads the selected CSV file into self.df (run_full_construction
\* calls it once, and first)
\* contents: what the selected file may hold
LoadData(contents) ==
    /\ IF data_dir = None \/ ~data_dir.exists
       THEN \* lines 85-93
            UNCHANGED <<df, columns, loaded, selected_file>>
       ELSE IF FilesFound(data_dir) = <<>>
       THEN \* lines 103-105
            UNCHANGED <<df, columns, loaded, selected_file>>
       ELSE /\ selected_file' = SelectFile(FilesFound(data_dir))
            /\ \E file \in contents :
                 IF file = EmptyFile
                 THEN \* lines 154-156: read_csv raises, load_data returns False
                      UNCHANGED <<df, columns, loaded>>
                 ELSE LET t == file[1]
                          cols == file[2]
                      IN /\ df' = [i \in DOMAIN t |-> [c \in cols |-> t[i][c]]]
                         /\ columns' = cols
                         /\ loaded' = TRUE
    /\ sim_call' = None
    /\ hetero_call' = None
    /\ UNCHANGED <<data_dir, output, tfidf_features, categorical_features, numerical_features,
                   label_encoders, graphs, stats>>
    /\ UNCHANGED tvars
load_data ==
    /\ ~loaded
    /\ LoadData(CsvFiles)
    /\ UNCHANGED rfc

\* lines 163-174: node_id and the required columns are added when missing
WithRequired(t, cols) ==
    [i \in DOMAIN t |->
        [c \in cols \cup {"node_id", "title", "description"} |->
            IF c \in cols THEN t[i][c]
            ELSE IF c = "node_id" THEN <<i - 1>> ELSE <<>>]]

\* lines 178-180: the stages, in the order prepare_features calls them
Stages == <<"text", "categorical", "numerical">>
\* the stages that have returned when stage raising raises ("none": all)
Completed(raising) ==
    IF raising = "none" THEN Range(Stages)
    ELSE {Stages[k] : k \in {j \in DOMAIN Stages : \A l \in DOMAIN Stages : Stages[l] = raising => j < l}}

\* prepare_features; raising is the stage out of which an exception comes
\* that the stage does not catch itself ("none": there is none).  The
\* stages that have returned have set their attributes; prepare_features
\* returns False when a stage raised (lines 183-185).
PrepareFeatures(raising) ==
    /\ LET cols1 == columns \cup {"node_id", "title", "description"}
           t1 == WithRequired(df, columns)
           cols2 == cols1 \cup {"combined_text"}
           t2 == [i \in DOMAIN t1 |->
                    [c \in cols2 |-> IF c = "combined_text" THEN CombinedText(t1[i], cols1)
                                     ELSE t1[i][c]]]
           done == Completed(raising)
       IN /\ IF "text" \in done
             THEN tfidf_features' = prepare_text_features(t1, cols1) /\ df' = t2 /\ columns' = cols2
             ELSE UNCHANGED tfidf_features /\ df' = t1 /\ columns' = cols1
          /\ IF "categorical" \in done
             THEN /\ categorical_features' = prepare_categorical_features(t2, cols2)
                  /\ label_encoders' = FitLabelEncoders(t2, cols2)
             ELSE UNCHANGED <<categorical_features, label_encoders>>
          /\ IF "numerical" \in done
             THEN numerical_features' = prepare_numerical_features(t2, cols2)
             ELSE UNCHANGED numerical_features
    /\ sim_call' = None
    /\ hetero_call' = None
    /\ UNCHANGED <<data_dir, selected_file, output, loaded, graphs, stats>>
    /\ UNCHANGED tvars

\* prepare_features (run_full_construction calls it once, on the loaded
\* table), in a process where no stage raises
prepare_features ==
    /\ loaded
    /\ ~Prepared
    /\ PrepareFeatures("none")
    /\ UNCHANGED rfc

\* create_event_similarity_graph(similarity_threshold = t / 100)
CreateEventSimilarityGraph(t) ==
    /\ IF ~Prepared
       THEN \* the feature attributes are missing: the except branch
            /\ sim_call' = [ok |-> FALSE, requested |-> t]
            /\ UNCHANGED <<graphs, stats>>
       ELSE IF SimilarityRaises(tfidf_features)
       THEN \* lines 442-444
            /\ sim_call' = [ok |-> FALSE, requested |-> t]
            /\ UNCHANGED <<graphs, stats>>
       ELSE \E seed \in SeedChoices :
            LET r == SimilarityGraph(tfidf_features, t, seed, 1)
                data == ToData(r.G, AllFeaturesShape(tfidf_features, categorical_features,
                                                     numerical_features))
            IN IF r.diverged
               THEN /\ sim_call' = [ok |-> FALSE, requested |-> t, diverged |-> TRUE]
                    /\ UNCHANGED <<graphs, stats>>
               ELSE /\ graphs' = Put(graphs, "event_similarity", data)
                    /\ stats' = Put(stats, "event_similarity", SimilarityStats(r.G))
                    /\ sim_call' = [ok |-> TRUE, requested |-> t, threshold |-> r.threshold,
                                    builds |-> r.builds, first |-> r.first, G |-> r.G,
                                    similarity_matrix |-> r.sim]
    /\ UNCHANGED <<data_dir, selected_file, output,
                   df, columns, loaded, tfidf_features, categorical_features,
                   numerical_features, label_encoders, hetero_call>>
    /\ UNCHANGED tvars
\* a call of create_event_similarity_graph from outside run_full_construction
create_event_similarity_graph(t) ==
    /\ CreateEventSimilarityGraph(t)
    /\ UNCHANGED rfc

\* create_heterogeneous_graph
CreateHeterogeneousGraph ==
    /\ IF ~Prepared
       THEN /\ hetero_call' = [ok |-> FALSE]
            /\ UNCHANGED <<graphs, stats>>
       ELSE IF HeteroRaises(df, columns)
       THEN \* lines 558-560
            /\ hetero_call' = [ok |-> FALSE]
            /\ UNCHANGED <<graphs, stats>>
       ELSE LET loc == HeteroLocals(df, columns)
                h == HeteroData(loc, Len(df),
                                AllFeaturesShape(tfidf_features, categorical_features,
                                                 numerical_features))
            IN /\ graphs' = Put(graphs, "heterogeneous", h)
               /\ stats' = Put(stats, "heterogeneous", HeteroStats(h, loc))
               /\ hetero_call' = [ok |-> TRUE, organizers |-> loc.organizers,
                                  venues |-> loc.venues,
                                  organizer_to_idx |-> loc.organizer_to_idx,
                                  venue_to_idx |-> loc.venue_to_idx]
    /\ UNCHANGED <<data_dir, selected_file, output,
                   df, columns, loaded, tfidf_features, categorical_features,
                   numerical_features, label_encoders, sim_call>>
    /\ UNCHANGED tvars
\* a call of create_heterogeneous_graph from outside run_full_construction
create_heterogeneous_graph ==
    /\ CreateHeterogeneousGraph
    /\ UNCHANGED rfc

\* ---------------------------------------------------- run_full_construction
\* lines 828-856: save_graphs writes <name>_graph.pt for every graph of
\* self.graphs and graph_metadata.json
SaveGraphs ==
    output' = [files |-> output.files \cup DOMAIN graphs,
               metadata |-> [total_events |-> Len(df),
                             graphs_created |-> DOMAIN graphs,
                             feature_dimensions |->
                                [tfidf |-> tfidf_features.shape[2],
                                 categorical |-> categorical_features.shape[2],
                                 numerical |-> numerical_features.shape[2]],
                             statistics |-> stats,
                             data_columns |-> columns]]
\* lines 916-917 and 927-928: graphs_created after a builder has returned
GraphsCreated(n, built) == IF built THEN n + 1 ELSE n
\* Mutant of NoGraphCreated: the run fails unless both graph types were built.
NotBothCreated(n) == n < 2
\* line 935
NoGraphCreated(n) == n = 0

\* lines 899-902: load_data; False ends the run
run_full_construction_load ==
    /\ rfc.pc = "idle"
    /\ LoadData(RunFiles \cup {EmptyFile})
    /\ rfc' = IF loaded' THEN [rfc EXCEPT !.pc = "prepare"]
              ELSE [rfc EXCEPT !.pc = "done", !.returned = "False"]

\* lines 904-907: prepare_features; False ends the run
run_full_construction_prepare ==
    /\ rfc.pc = "prepare"
    /\ \E raising \in {"none"} \cup Range(Stages) :
        /\ PrepareFeatures(raising)
        /\ rfc' = IF raising = "none" THEN [rfc EXCEPT !.pc = "similarity"]
                  ELSE [rfc EXCEPT !.pc = "done", !.returned = "False", !.raised = raising]

\* lines 913-922: the similarity graph, with the default threshold
run_full_construction_similarity ==
    /\ rfc.pc = "similarity"
    /\ CreateEventSimilarityGraph(DefaultThreshold)
    /\ rfc' = [rfc EXCEPT !.pc = "heterogeneous",
                          !.graphs_created = GraphsCreated(@, sim_call'.ok)]

\* lines 924-933: the heterogeneous graph
run_full_construction_heterogeneous ==
    /\ rfc.pc = "heterogeneous"
    /\ CreateHeterogeneousGraph
    /\ rfc' = [rfc EXCEPT !.pc = "finish",
                          !.graphs_created = GraphsCreated(@, hetero_call'.ok)]

\* lines 935-949: False when no graph was created; else visualize_graphs
\* (which writes below output_dir/visualizations only), save_graphs,
\* generate_summary, and True
run_full_construction_finish ==
    /\ rfc.pc = "finish"
    /\ IF NoGraphCreated(rfc.graphs_created)
       THEN /\ rfc' = [rfc EXCEPT !.pc = "done", !.returned = "False"]
            /\ UNCHANGED output
       ELSE /\ SaveGraphs
            /\ rfc' = [rfc EXCEPT !.pc = "done", !.returned = "True"]
    /\ UNCHANGED <<data_dir, selected_file, df, columns, loaded, tfidf_features,
                   categorical_features, numerical_features, label_encoders,
                   graphs, stats, sim_call, hetero_call>>
    /\ UNCHANGED tvars

\* ======================================================================
\* GNNTrainer (src/models/gnn_training.py)
\* ======================================================================
\* Nodes of a graph file's graph: 1..MaxNodes.
MaxNodes == 5
\* GNNTrainer methods called in one run of the model.
MaxCalls == 2

\* Program constants.
Epochs == 200
ValEvery == 20
LinkEpochs == 100
NumRandomClasses == 3
ClusterWidth == 10

GraphNames == {"event_similarity", "heterogeneous"}
\* Mutant of ModelTypes: "MLP" is taken for a known architecture.
ModelTypesWithMLP == {"GCN", "GAT", "GraphSAGE", "MLP"}
\* lines 209-217: the architectures train_node_classification builds
ModelTypes == {"GCN", "GAT", "GraphSAGE"}
\* the model types train_node_classification is called with ("MLP" is none of ModelTypes)
RequestedTypes == ModelTypes \cup {"MLP"}

AllPairs(n) == {e \in (1..n) \X (1..n) : e[1] < e[2]}
Directed(edges) == edges \cup {<<e[2], e[1]>> : e \in edges}
\* A Data object as graph_construction.py saves it: n nodes, features of
\* the given width, the given undirected edges.  kmeans is the clustering
\* KMeans(random_state=42) finds in its features: 0, one cluster; 1, the
\* nodes spread over the clusters.
DataGraph(n, width, edges, kmeans) ==
    [kind |-> "Data", num_nodes |-> n, x |-> <<n, width>>,
     edge_index |-> Directed(edges), edge_index_is_none |-> FALSE,
     kmeans |-> kmeans, labelled |-> FALSE, y |-> <<>>,
     train_mask |-> {}, val_mask |-> {}, test_mask |-> {}]
\* the heterogeneous graph: it has neither x nor edge_index of its own
HeteroGraph == [kind |-> "HeteroData"]
NarrowWidth == 6
WideWidth == 16
\* the event_similarity graphs a graph file may hold
SimilarityFiles ==
    UNION {{DataGraph(n, NarrowWidth, {}, 0),
            DataGraph(n, WideWidth, AllPairs(n) \ {<<1, 2>>}, 0),
            DataGraph(n, WideWidth, AllPairs(n) \ {<<1, 2>>}, 1)} : n \in 1..MaxNodes}
\* What graph_data_dir may hold: the (name, graph) pairs of its *_graph.pt
\* files in the order glob lists them.
GraphDirs ==
    {<<>>, <<[name |-> "heterogeneous", graph |-> HeteroGraph]>>}
    \cup {<<[name |-> "event_similarity", graph |-> g]>> : g \in SimilarityFiles}
    \cup {<<[name |-> "heterogeneous", graph |-> HeteroGraph],
            [name |-> "event_similarity", graph |-> g]>> : g \in SimilarityFiles}

\* self.graphs is a dict: its items in insertion order
Keys(d) == [k \in DOMAIN d |-> d[k].name]
Has(d, name) == \E k \in DOMAIN d : d[k].name = name
Get(d, name) == d[CHOOSE k \in DOMAIN d : d[k].name = name].graph
SetGraph(d, name, g) == [k \in DOMAIN d |-> IF d[k].name = name THEN [name |-> name, graph |-> g] ELSE d[k]]

\* Mutant of ResolveGraph: a name that is not loaded is not replaced.
ResolveGraphStrict(d, graph_name) == IF Has(d, graph_name) THEN graph_name ELSE ""
\* lines 152-160 and 278-285: the graph the method works on, "" when there is none
ResolveGraph(d, graph_name) ==
    IF Has(d, graph_name) THEN graph_name
    ELSE IF Len(d) > 0 THEN Keys(d)[1] ELSE ""

\* line 170: n_clusters
NumClusters(num_nodes) == Min(5, Max(2, num_nodes \div 10))
\* KMeans raises when there are fewer samples than clusters
KMeansRaises(num_nodes) == num_nodes < NumClusters(num_nodes)
\* line 172: the cluster of every node
ClusterLabels(g) ==
    [i \in 1..g.num_nodes |-> (g.kmeans * i) % NumClusters(g.num_nodes)]
\* Mutant of RandomLabels: np.random.randint(0, 4, ...).
RandomLabelsUpTo4(n, seed) ==
    [i \in 1..n |-> (i + seed) % (NumRandomClasses + 1)]
\* line 174: np.random.randint(0, 3, size=num_nodes) with the generator in state seed
RandomLabels(n, seed) ==
    [i \in 1..n |-> ((i % 2) * (seed + 1) + (seed \div 2) * i) % NumRandomClasses]
\* lines 168-174
SyntheticLabels(g, seed) ==
    IF g.x[2] > ClusterWidth THEN ClusterLabels(g) ELSE RandomLabels(g.num_nodes, seed)

\* line 180: np.random.permutation(num_nodes) with the generator in state seed
Permutation(n, seed) ==
    [i \in 1..n |-> IF seed % 2 = 0 THEN ((i - 1 + seed) % n) + 1
                    ELSE n - ((i - 1 + seed) % n)]
\* lines 181-182: int(0.6 * n), int(0.2 * n)
TrainSize(n) == (6 * n) \div 10
ValSize(n) == (2 * n) \div 10
\* Mutant of Masks: the validation slice starts one index early.
MasksOverlapping(n, seed) ==
    LET indices == Permutation(n, seed)
        train_size == TrainSize(n)
        val_size == ValSize(n)
    IN [train |-> {indices[k] : k \in 1..train_size},
        val   |-> {indices[k] : k \in Max(1, train_size)..(train_size + val_size)},
        test  |-> {indices[k] : k \in (train_size + val_size + 1)..n}]
\* lines 176-186: the three masks, as the sets of their true entries
Masks(n, seed) ==
    LET indices == Permutation(n, seed)
        train_size == TrainSize(n)
        val_size == ValSize(n)
    IN [train |-> {indices[k] : k \in 1..train_size},
        val   |-> {indices[k] : k \in (train_size + 1)..(train_size + val_size)},
        test  |-> {indices[k] : k \in (train_size + val_size + 1)..n}]

\* lines 188-191: the graph with the labels and the masks stored on it
Labelled(g, seed) ==
    LET mk == Masks(g.num_nodes, seed) IN
    [g EXCEPT !.labelled = TRUE, !.y = SyntheticLabels(g, seed),
              !.train_mask = mk.train, !.val_mask = mk.val, !.test_mask = mk.test]

\* line 207: len(torch.unique(graph.y))
NumClasses(g) == Cardinality(Range(g.y))
\* the forward pass fails on a graph whose edge_index is None
ForwardRaises(g) == g.edge_index_is_none
\* CrossEntropyLoss fails on a target that is no class index of the model
LossRaises(g) == \E i \in g.train_mask : g.y[i] >= NumClasses(g)
\* the epochs at which the validation accuracy is evaluated
ValEpochs == {e \in 0..(Epochs - 1) : e % ValEvery = 0}

\* line 222: model.train() before the loop; train_losses and val_accuracies
\* are empty.  steps holds (epoch, mode of the model) of every gradient
\* step, evaluations (epoch, mode of the model) of every validation.
LoopStart ==
    [mode |-> "train", train_losses |-> 0, val_accuracies |-> 0,
     steps |-> {}, evaluations |-> {}]
\* Mutant of ModeAfterValidation: model.train() of line 245 is left out.
ModeAfterValidationKept == "eval"
\* line 245: model.train() after the validation
ModeAfterValidation == "train"
\* lines 227-233: one gradient step of epoch
GradientStep(st, epoch) == [st EXCEPT !.steps = @ \cup {<<epoch, st.mode>>}]
\* lines 235-245: the validation of epoch
Validation(st, epoch) ==
    IF epoch % ValEvery = 0
    THEN LET evaluating == [st EXCEPT !.mode = "eval"] IN
         [evaluating EXCEPT !.evaluations = @ \cup {<<epoch, evaluating.mode>>},
                            !.val_accuracies = @ + 1,
                            !.mode = ModeAfterValidation]
    ELSE st
\* lines 227-247: the body of the loop; line 247 appends the loss
Epoch(st, epoch) ==
    [Validation(GradientStep(st, epoch), epoch) EXCEPT !.train_losses = @ + 1]
\* line 226: the epochs first..last in their order, as the first half of
\* them followed by the second half (the second half starts from the
\* evaluated outcome of the first)
RECURSIVE TrainingLoop(_, _, _)
TrainingLoop(first, last, st) ==
    IF first > last THEN st
    ELSE IF first = last THEN Epoch(st, first)
    ELSE LET mid == (first + last) \div 2
             half == TrainingLoop(first, mid, st)
         IN IF half.train_losses >= 0 THEN TrainingLoop(mid + 1, last, half) ELSE half
\* lines 249-254: model.eval() and the evaluation on the test mask
TestEvaluation(st) == [st EXCEPT !.mode = "eval"] @@ [test_mode |-> "eval"]
\* lines 222-254 on a graph the loop does not fail on
Training == TestEvaluation(TrainingLoop(0, Epochs - 1, LoopStart))

\* lines 256-264
NodeResult(model_type, graph_name, g) ==
    [model_type |-> model_type, graph_name |-> graph_name,
     test_accuracy |-> "accuracy_score", test_f1 |-> "f1_score",
     num_classes |-> NumClasses(g),
     train_losses |-> Epochs, val_accuracies |-> Cardinality(ValEpochs)]
\* model_key = f"{model_type}_{graph_name}"
ModelKey(model_type, graph_name) == <<model_type, graph_name>>

\* load_graphs: reads every *_graph.pt of graph_data_dir into self.graphs
load_graphs ==
    /\ t_call = None /\ rft = "idle"
    /\ \E dir \in GraphDirs :
        /\ t_graphs' = dir
        /\ t_call' = [op |-> "load_graphs", returned |-> IF Len(dir) > 0 THEN "True" ELSE "False"]
    \* the state numpy's generator is in when the training starts
    /\ rng' \in Seeds
    /\ UNCHANGED <<models, results, saved, calls, rft>>
    /\ UNCHANGED cvars

Loaded == t_call # None

\* train_node_classification(graph_name, model_type); empty_val_raises says
\* whether accuracy_score raises on an empty validation mask
NodeClassification(graph_name, model_type, empty_val_raises) ==
    /\ LET used == ResolveGraph(t_graphs, graph_name)
           call == [op |-> "train_node_classification", graph_name |-> graph_name,
                    model_type |-> model_type, used |-> used]
       IN IF used = ""
          THEN \* prepare_node_classification_data returns None
               /\ t_call' = call @@ [returned |-> "None", epochs |-> 0, prepared |-> FALSE, evaluated |-> FALSE]
               /\ UNCHANGED <<t_graphs, models, results, rng>>
          ELSE LET graph == Get(t_graphs, used) IN
               IF graph.kind = "HeteroData"
               THEN \* graph.x raises AttributeError
                    /\ t_call' = call @@ [returned |-> "raised", epochs |-> 0, prepared |-> FALSE, evaluated |-> FALSE]
                    /\ UNCHANGED <<t_graphs, models, results, rng>>
               ELSE IF graph.x[2] > ClusterWidth /\ KMeansRaises(graph.num_nodes)
               THEN /\ t_call' = call @@ [returned |-> "raised", epochs |-> 0, prepared |-> FALSE, evaluated |-> FALSE]
                    /\ UNCHANGED <<t_graphs, models, results, rng>>
               ELSE LET g == Labelled(graph, rng) IN
                    /\ t_graphs' = SetGraph(t_graphs, used, g)
                    /\ rng' = NextSeed(rng)
                    /\ IF model_type \notin ModelTypes
                       THEN /\ t_call' = call @@ [returned |-> "None", epochs |-> 0, prepared |-> TRUE, evaluated |-> FALSE]
                            /\ UNCHANGED <<models, results>>
                       ELSE IF ForwardRaises(g) \/ LossRaises(g)
                       THEN /\ t_call' = call @@ [returned |-> "raised", epochs |-> 0, prepared |-> TRUE, evaluated |-> FALSE]
                            /\ UNCHANGED <<models, results>>
                       ELSE IF g.val_mask = {} /\ empty_val_raises
                       THEN \* one gradient step, then the first validation fails
                            /\ t_call' = call @@ [returned |-> "raised", epochs |-> 1, prepared |-> TRUE, evaluated |-> FALSE]
                            /\ UNCHANGED <<models, results>>
                       ELSE \* the whole loop, then the test evaluation, then lines 269-271
                            /\ t_call' = call @@ [returned |-> "results", epochs |-> Epochs,
                                                  prepared |-> TRUE, evaluated |-> TRUE,
                                                  training |-> Training]
                            /\ models' = Put(models, ModelKey(model_type, graph_name),
                                             [model_type |-> model_type, output_dim |-> NumClasses(g)])
                            /\ results' = Put(results, ModelKey(model_type, graph_name),
                                              NodeResult(model_type, graph_name, g))
    /\ UNCHANGED saved
    /\ UNCHANGED cvars

\* a call of train_node_classification from outside run_full_training
train_node_classification(graph_name, model_type, empty_val_raises) ==
    /\ Loaded /\ rft = "idle" /\ calls < MaxCalls
    /\ calls' = calls + 1
    /\ NodeClassification(graph_name, model_type, empty_val_raises)
    /\ UNCHANGED rft

\* hasattr(graph, 'edge_index'): Data has the property, HeteroData has not
HasEdgeIndex(g) == g.kind = "Data"
\* Mutant of NoEdges: a graph without edges is not turned away.
NoEdgesIgnored(g) == ~HasEdgeIndex(g)
\* line 289: the graph has nothing to predict links on
NoEdges(g) == ~HasEdgeIndex(g) \/ Cardinality(g.edge_index) = 0
\* train_test_split_edges(graph, val_ratio=0.1, test_ratio=0.2): the sizes
\* of the positive and the negative test sets
UndirectedEdges(g) == {e \in g.edge_index : e[1] < e[2]}
SplitSizes(g) ==
    LET E == Cardinality(UndirectedEdges(g))
        n_v == E \div 10
        n_t == (2 * E) \div 10
        avail == Cardinality(AllPairs(g.num_nodes) \ UndirectedEdges(g))
    IN [test_pos |-> n_t, test_neg |-> Max(0, Min(avail, n_v + n_t) - n_v)]
\* the test labels hold fewer than two classes
OneClass(g) == SplitSizes(g).test_pos = 0 \/ SplitSizes(g).test_neg = 0
\* the graph as train_test_split_edges leaves it: edge_index is None
SplitGraph(g) == [g EXCEPT !.edge_index = {}, !.edge_index_is_none = TRUE]

\* train_link_prediction(graph_name); one_class_raises says whether
\* roc_auc_score raises on test labels of one class (it returns nan otherwise)
LinkPrediction(graph_name, one_class_raises) ==
    /\ LET used == ResolveGraph(t_graphs, graph_name)
           call == [op |-> "train_link_prediction", graph_name |-> graph_name,
                    model_type |-> "GraphSAGE_LinkPred", used |-> used, prepared |-> FALSE]
       IN IF used = ""
          THEN /\ t_call' = call @@ [returned |-> "None", epochs |-> 0]
               /\ UNCHANGED <<t_graphs, results>>
          ELSE LET graph == Get(t_graphs, used) IN
               IF HasEdgeIndex(graph) /\ graph.edge_index_is_none
               THEN \* graph.edge_index.shape raises AttributeError
                    /\ t_call' = call @@ [returned |-> "raised", epochs |-> 0]
                    /\ UNCHANGED <<t_graphs, results>>
               ELSE IF NoEdges(graph)
               THEN /\ t_call' = call @@ [returned |-> "None", epochs |-> 0]
                    /\ UNCHANGED <<t_graphs, results>>
               ELSE /\ t_graphs' = SetGraph(t_graphs, used, SplitGraph(graph))
                    /\ IF OneClass(graph) /\ one_class_raises
                       THEN /\ t_call' = call @@ [returned |-> "raised", epochs |-> LinkEpochs]
                            /\ UNCHANGED results
                       ELSE /\ t_call' = call @@ [returned |-> "results", epochs |-> LinkEpochs]
                            /\ results' = Put(results, ModelKey("LinkPred", used),
                                              [model_type |-> "GraphSAGE_LinkPred", graph_name |-> used,
                                               test_auc |-> IF OneClass(graph) THEN "nan" ELSE "auc"])
    /\ UNCHANGED <<models, saved, rng>>
    /\ UNCHANGED cvars

\* a call of train_link_prediction from outside run_full_training
train_link_prediction(graph_name, one_class_raises) ==
    /\ Loaded /\ rft = "idle" /\ calls < MaxCalls
    /\ calls' = calls + 1
    /\ LinkPrediction(graph_name, one_class_raises)
    /\ UNCHANGED rft

\* save_results: one .pt file per entry of self.models, and training_results.json
\* Mutant of Persisted: a parameter file is written for every result record too.
PersistedWithResults(files, m, r) == files \cup DOMAIN m \cup DOMAIN r
\* lines 438-441: the model files in models_dir after save_results
Persisted(files, m, r) == files \cup DOMAIN m
SaveResults ==
    /\ saved' = [model_files |-> Persisted(saved.model_files, models, results),
                 written |-> TRUE, training_results |-> results]
    /\ UNCHANGED <<t_graphs, models, results, rng, calls>>
    /\ UNCHANGED cvars
\* a call of save_results from outside run_full_training
save_results ==
    /\ Loaded /\ rft = "idle"
    /\ SaveResults
    /\ t_call' = [op |-> "save_results", returned |-> "None"]
    /\ UNCHANGED rft

\* ------------------------------------------------------- run_full_training
\* line 470: the architectures in the order run_full_training trains them
RunOrder == <<"GCN", "GAT", "GraphSAGE">>
\* lines 467-468
TargetGraph == IF Len(t_graphs) > 0 THEN Keys(t_graphs)[1] ELSE "event_similarity"
\* Mutant of AfterRun: an exception ends run_full_training.
AfterRunAborting(pos, returned) ==
    IF returned = "raised" THEN "done"
    ELSE IF pos = "GCN" THEN "GAT"
    ELSE IF pos = "GAT" THEN "GraphSAGE"
    ELSE IF pos = "GraphSAGE" THEN "LinkPred"
    ELSE "save"
\* lines 470-482: what follows the run at pos; an exception of the run is
\* caught and printed, so what the run returned or raised makes no difference
AfterRun(pos, returned) ==
    IF pos = "GCN" THEN "GAT"
    ELSE IF pos = "GAT" THEN "GraphSAGE"
    ELSE IF pos = "GraphSAGE" THEN "LinkPred"
    ELSE "save"

\* lines 460-462: load_graphs; False ends run_full_training
run_full_training_load ==
    /\ t_call = None /\ rft = "idle"
    /\ \E dir \in GraphDirs :
        /\ t_graphs' = dir
        /\ IF Len(dir) > 0
           THEN /\ t_call' = [op |-> "load_graphs", returned |-> "True"]
                /\ rft' = RunOrder[1]
           ELSE /\ t_call' = [op |-> "run_full_training", returned |-> "False"]
                /\ rft' = "done"
    /\ rng' \in Seeds
    /\ UNCHANGED <<models, results, saved, calls>>
    /\ UNCHANGED cvars

\* lines 470-474: one architecture's node classification on the target graph
run_full_training_node ==
    /\ rft \in Range(RunOrder)
    /\ \E empty_val_raises \in BOOLEAN :
        NodeClassification(TargetGraph, rft, empty_val_raises)
    /\ rft' = AfterRun(rft, t_call'.returned)
    /\ UNCHANGED calls

\* lines 479-482: link prediction on the target graph
run_full_training_link ==
    /\ rft = "LinkPred"
    /\ \E one_class_raises \in BOOLEAN :
        LinkPrediction(TargetGraph, one_class_raises)
    /\ rft' = AfterRun(rft, t_call'.returned)
    /\ UNCHANGED calls

\* lines 484-488: visualize_results, save_results, return True
run_full_training_save ==
    /\ rft = "save"
    /\ SaveResults
    /\ t_call' = [op |-> "run_full_training", returned |-> "True"]
    /\ rft' = "done"

TrainerInit ==
    /\ t_graphs = <<>>
    /\ models = EmptyMap
    /\ results = EmptyMap
    /\ saved = [model_files |-> {}, written |-> FALSE, training_results |-> EmptyMap]
    /\ rng = 0
    /\ calls = 0
    /\ rft = "idle"
    /\ t_call = None

Init == ConstructorInit /\ TrainerInit

Next ==
    \/ load_data
    \/ prepare_features
    \/ \E t \in Thresholds : create_event_similarity_graph(t)
    \/ create_heterogeneous_graph

\* The graph construction pipeline.
Spec == Init /\ [][Next]_vars

TrainNext ==
    \/ load_graphs
    \/ \E graph_name \in GraphNames, model_type \in RequestedTypes, empty_val_raises \in BOOLEAN :
          train_node_classification(graph_name, model_type, empty_val_raises)
    \/ \E graph_name \in GraphNames, one_class_raises \in BOOLEAN :
          train_link_prediction(graph_name, one_class_raises)
    \/ save_results

\* The training of the models on the saved graphs.
TrainSpec == Init /\ [][TrainNext]_vars

ConstructionInit ==
    /\ \E data_dir_arg \in {None} \cup DirStates, possible_paths \in WorkingDirs :
          Constructed(InitDataDir(data_dir_arg, possible_paths))
    /\ TrainerInit

ConstructionNext ==
    \/ run_full_construction_load
    \/ run_full_construction_prepare
    \/ run_full_construction_similarity
    \/ run_full_construction_heterogeneous
    \/ run_full_construction_finish

\* One run of run_full_construction on a newly constructed GraphConstructor.
ConstructionSpec == ConstructionInit /\ [][ConstructionNext]_vars

FullTrainingNext ==
    \/ run_full_training_load
    \/ run_full_training_node
    \/ run_full_training_link
    \/ run_full_training_save

\* One run of run_full_training.
FullTrainingSpec == Init /\ [][FullTrainingNext]_vars

\* ======================================================================
\* Claims about the graph construction pipeline (specification Spec)
\* ======================================================================
SimDone(c) == c # None /\ c.ok
EdgeCount(c) == Cardinality(c.G.edges)
TextWidth == tfidf_features.shape[2]

\* C1 (as stated): for two calls of create_event_similarity_graph on the
\* same table with thresholds t1 < t2, the graph returned for t1 has at
\* least as many edges as the graph returned for t2, auto-relaxation
\* included.  Stated on every pair of successive calls.
C1_MonotoneEdges ==
    [][(SimDone(sim_call) /\ SimDone(sim_call')) =>
         /\ sim_call.requested < sim_call'.requested => EdgeCount(sim_call) >= EdgeCount(sim_call')
         /\ sim_call'.requested < sim_call.requested => EdgeCount(sim_call') >= EdgeCount(sim_call)]_vars

\* lo and hi are calls with lo.requested < hi.requested; the build for hi
\* is relaxed only if the build for lo is
RelaxedTogether(lo, hi) == hi.builds > 1 => lo.builds > 1
\* C1 (amended): when the textual block is wider than one column, the
\* graph returned for t1 has at least as many edges as the graph returned
\* for t2 > t1, unless only the build for t2 was relaxed.
C1_MonotoneUnlessRelaxed ==
    [][(SimDone(sim_call) /\ SimDone(sim_call') /\ TextWidth > 1) =>
         /\ (sim_call.requested < sim_call'.requested /\ RelaxedTogether(sim_call, sim_call'))
               => EdgeCount(sim_call) >= EdgeCount(sim_call')
         /\ (sim_call'.requested < sim_call.requested /\ RelaxedTogether(sim_call', sim_call))
               => EdgeCount(sim_call') >= EdgeCount(sim_call)]_vars
\* a call with a threshold above the floor returned an unrelaxed graph on
\* a textual block wider than one column, with edges to lose or keep
C1_Witness ==
    /\ SimDone(sim_call) /\ TextWidth > 1
    /\ sim_call.requested > RelaxedThreshold /\ sim_call.builds = 1
    /\ EdgeCount(sim_call) >= MinEdges
    /\ EdgeCount(sim_call) < (Len(df) * (Len(df) - 1)) \div 2

\* C2: for a table in which an event's organizer is NaN, the heterogeneous
\* graph has a default organizer node and exactly one event->organizer
\* edge from that event to it.
DefaultOrganizers == {<<"Unknown_Organizer">>, <<"Unknown">>, <<"nan">>}
HeteroDone == hetero_call # None /\ hetero_call.ok
C2_DefaultOrganizerEdge ==
    (HeteroDone /\ "organizer" \in columns) =>
        \A i \in DOMAIN df : isna(df[i]["organizer"]) =>
            LET edges == graphs["heterogeneous"].organized_by
                mine == {k \in DOMAIN edges : edges[k][1] = i}
            IN /\ Cardinality(mine) = 1
               /\ \A k \in mine : hetero_call.organizers[edges[k][2]] \in DefaultOrganizers

\* the table of the scenario: ScenarioEvents rows that share one category
\* value and have empty titles and descriptions
EmptyCell(v) == isna(v) \/ v = <<>>
IsScenario ==
    /\ Len(df) = ScenarioEvents
    /\ "category" \in columns
    /\ \A i \in DOMAIN df :
        /\ df[i]["category"] = df[1]["category"]
        /\ EmptyCell(df[i]["title"]) /\ EmptyCell(df[i]["description"])
\* C3 (as stated): in the scenario the textual block is the
\* ScenarioEvents x 10 all-ones dummy matrix.
C3_ScenarioDummy ==
    (Prepared /\ IsScenario) =>
        /\ tfidf_features.shape = <<ScenarioEvents, DummyWidth>>
        /\ \A i \in DOMAIN tfidf_features.m : \A g \in tfidf_features.names :
              tfidf_features.m[i][g] = 1
        /\ tfidf_features = DummyFeatures(ScenarioEvents)
\* the category text holds a word the vectorizer indexes
HasTerm(v) ==
    LET text == fillna(v, <<>>) IN
    \E k \in DOMAIN text : text[k] \in TokenWords \ StopWords
\* C3 (amended): in the scenario the textual block is the dummy matrix
\* exactly when the shared category value is missing or holds no word the
\* vectorizer indexes; otherwise it is the TF-IDF matrix of the category
\* text, ScenarioEvents rows with one column per term and no zero row.
C3_ScenarioDummyIffNoTerm ==
    (Prepared /\ IsScenario) =>
        IF HasTerm(df[1]["category"])
        THEN /\ tfidf_features # DummyFeatures(ScenarioEvents)
             /\ tfidf_features.shape[1] = ScenarioEvents
             /\ tfidf_features.shape[2] = Cardinality(tfidf_features.names)
             /\ \A g \in tfidf_features.names : Len(g) \in 1..2 /\ g[1] \in TokenWords
             /\ \A i \in DOMAIN tfidf_features.m : \E g \in tfidf_features.names :
                   tfidf_features.m[i][g] > 0
        ELSE tfidf_features = DummyFeatures(ScenarioEvents)
\* the scenario with a category value that is present and has no term
C3_Witness ==
    /\ Prepared /\ IsScenario
    /\ ~isna(df[1]["category"])
    /\ tfidf_features = DummyFeatures(ScenarioEvents)

\* C4 (as stated): every edge weight of the returned graph is the cosine
\* similarity of the textual rows of its two events.
WeightsAreCosines ==
    \A e \in sim_call.G.edges :
        sim_call.G.weight[e] =
            Cosine(tfidf_features.m[e[1]], tfidf_features.m[e[2]], tfidf_features.names)
C4_WeightIsCosine == SimDone(sim_call) => WeightsAreCosines
\* C4 (amended): ... when the textual block is wider than one column.
C4_WeightIsCosineWide == (SimDone(sim_call) /\ TextWidth > 1) => WeightsAreCosines
\* a graph over a wide textual block with an edge of weight below 1
C4_Witness ==
    /\ SimDone(sim_call) /\ TextWidth > 1
    /\ \E e \in sim_call.G.edges : sim_call.G.weight[e] # One

\* C5: after prepare_features the three blocks have as many rows as the table.
C5_BlockRows ==
    Prepared =>
        /\ tfidf_features.shape[1] = Len(df)
        /\ Len(tfidf_features.m) = Len(df)
        /\ categorical_features.shape[1] = Len(df)
        /\ numerical_features.shape[1] = Len(df)
\* a prepared table with an empty and a non-empty text, real TF-IDF
\* features, and the zero column as categorical block
C5_Witness ==
    /\ Prepared /\ Len(df) >= 2
    /\ tfidf_features # DummyFeatures(Len(df))
    /\ \E i \in DOMAIN df : df[i]["combined_text"] = <<>>
    /\ categorical_features = Zeros(Len(df))

\* str(row.get('organizer', '')) of row i
OrganizerString(i) == IF "organizer" \in columns THEN str(df[i]["organizer"]) ELSE <<>>
\* C7: the event->organizer edges are at most one per event, at most as
\* many as the event nodes, and as many as the events whose organizer
\* string is a key of the organizer index map.
C7_OrganizerEdges ==
    HeteroDone =>
        LET h == graphs["heterogeneous"]
            edges == h.organized_by
        IN /\ stats["heterogeneous"].event_org_edges = Len(edges)
           /\ Len(edges) <= h.event.num_nodes
           /\ Len(edges) = Cardinality({i \in DOMAIN df :
                                OrganizerString(i) \in DOMAIN hetero_call.organizer_to_idx})
           /\ \A k, l \in DOMAIN edges : edges[k][1] = edges[l][1] => k = l
           /\ \A k \in DOMAIN edges :
                 hetero_call.organizers[edges[k][2]] = OrganizerString(edges[k][1])
\* a graph with an event that has an edge and an event that has none
C7_Witness ==
    /\ HeteroDone /\ "organizer" \in columns
    /\ Len(graphs["heterogeneous"].organized_by) >= 1
    /\ Len(graphs["heterogeneous"].organized_by) < Len(df)

NodeDataPrepared ==
    t_call # None /\ t_call.op = "train_node_classification" /\ t_call.prepared
\* the graph the last method worked on
UsedGraph == Get(t_graphs, t_call.used)

\* C6: for every node count N, the train, validation and test masks that
\* prepare_node_classification_data sets are pairwise disjoint and every
\* node is in exactly one of them: their true entries total N.
C6_MasksPartition ==
    NodeDataPrepared =>
        LET g == UsedGraph IN
        /\ g.train_mask \cap g.val_mask = {}
        /\ g.train_mask \cap g.test_mask = {}
        /\ g.val_mask \cap g.test_mask = {}
        /\ g.train_mask \cup g.val_mask \cup g.test_mask = 1..g.num_nodes
        /\ Cardinality(g.train_mask) + Cardinality(g.val_mask) + Cardinality(g.test_mask)
              = g.num_nodes

\* prepare_node_classification_data has split a graph of MaxNodes nodes
\* into three non-empty masks
C6_Witness ==
    /\ NodeDataPrepared
    /\ UsedGraph.num_nodes = MaxNodes
    /\ UsedGraph.train_mask # {} /\ UsedGraph.val_mask # {} /\ UsedGraph.test_mask # {}

\* the graph that train_link_prediction(graph_name) looks at has an
\* edge_index with no column
ZeroEdgeGraph(graph_name) ==
    LET used == ResolveGraph(t_graphs, graph_name) IN
    /\ used # ""
    /\ Get(t_graphs, used).kind = "Data"
    /\ ~Get(t_graphs, used).edge_index_is_none
    /\ Get(t_graphs, used).edge_index = {}

\* C9: train_link_prediction called on a graph with zero edges returns
\* None without raising and runs no training epoch; it leaves self.results,
\* self.models and the graph as they were, and a save_results writes the
\* model files of self.models and no other, so none for that call.
C9_ZeroEdgesReturnsNone ==
    [][/\ (calls' = calls + 1 /\ t_call'.op = "train_link_prediction"
             /\ ZeroEdgeGraph(t_call'.graph_name))
          => /\ t_call'.returned = "None"
             /\ t_call'.epochs = 0
             /\ results' = results
             /\ models' = models
             /\ t_graphs' = t_graphs
             /\ saved' = saved
       /\ (calls' = calls /\ t_call' # None /\ t_call'.op = "save_results")
          => saved'.model_files = saved.model_files \cup DOMAIN models]_vars

\* train_link_prediction has returned None on a graph with zero edges
\* while a trained model was held
C9_Witness ==
    /\ t_call # None /\ t_call.op = "train_link_prediction"
    /\ t_call.used # "" /\ UsedGraph.kind = "Data"
    /\ ~UsedGraph.edge_index_is_none /\ UsedGraph.edge_index = {}
    /\ t_call.returned = "None"
    /\ DOMAIN models # {}

\* C10: when the node features are at most 10 wide,
\* prepare_node_classification_data gives every node a label in {0,1,2},
\* and the num_classes that train_node_classification reports is the
\* number of distinct labels assigned, at most 3.
C10_RandomLabelClasses ==
    (NodeDataPrepared /\ UsedGraph.x[2] <= ClusterWidth) =>
        /\ \A i \in 1..UsedGraph.num_nodes : UsedGraph.y[i] \in {0, 1, 2}
        /\ t_call.returned = "results" =>
            LET reported == results[ModelKey(t_call.model_type, t_call.graph_name)].num_classes IN
            /\ reported = Cardinality({UsedGraph.y[i] : i \in 1..UsedGraph.num_nodes})
            /\ reported <= 3

\* a model has been trained on a graph with narrow features whose
\* nodes got all three labels
C10_Witness ==
    /\ NodeDataPrepared /\ UsedGraph.x[2] <= ClusterWidth
    /\ t_call.returned = "results"
    /\ results[ModelKey(t_call.model_type, t_call.graph_name)].num_classes = 3

\* this step is a call of train_node_classification
NodeCallStep == calls' = calls + 1 /\ t_call'.op = "train_node_classification"
\* the step leaves self.models and self.results as they were
NothingRecorded == results' = results /\ models' = models

C12_ResultNamesTrainedGraph ==
    (t_call # None /\ t_call.op = "train_node_classification" /\ t_call.returned = "results") =>
        /\ ModelKey(t_call.model_type, t_call.used) \in DOMAIN results
        /\ ModelKey(t_call.model_type, t_call.used) \in DOMAIN models
        /\ results[ModelKey(t_call.model_type, t_call.used)].graph_name = t_call.used

\* C13 as stated: train_node_classification called with a model type other
\* than GCN, GAT or GraphSAGE returns None, runs no training epoch and adds
\* no entry to self.models or self.results.
C13_UnknownTypeReturnsNone ==
    [][(NodeCallStep /\ t_call'.model_type \notin {"GCN", "GAT", "GraphSAGE"}) =>
          /\ t_call'.returned = "None"
          /\ t_call'.epochs = 0
          /\ NothingRecorded]_vars

\* C13, amended: train_node_classification called with a model type other
\* than GCN, GAT or GraphSAGE runs no training epoch and adds no entry to
\* self.models or self.results; it returns None whenever
\* prepare_node_classification_data returns, and raises when that raises
\* (the graph it works on is the heterogeneous one, or the clustering fails).
C13_UnknownTypeNoTraining ==
    [][(NodeCallStep /\ t_call'.model_type \notin {"GCN", "GAT", "GraphSAGE"}) =>
          /\ t_call'.epochs = 0
          /\ ~t_call'.evaluated
          /\ NothingRecorded
          /\ t_call'.returned \in {"None", "raised"}
          /\ (t_call'.prepared \/ t_call'.used = "") => t_call'.returned = "None"
          /\ t_call'.returned = "raised" =>
                \/ Get(t_graphs, t_call'.used).kind = "HeteroData"
                \/ KMeansRaises(Get(t_graphs, t_call'.used).num_nodes)]_vars

\* train_node_classification has returned None for the model type "MLP"
\* on a graph that it had prepared, while a trained model was held
C13_Witness ==
    /\ t_call # None /\ t_call.op = "train_node_classification"
    /\ t_call.model_type = "MLP"
    /\ t_call.prepared /\ t_call.returned = "None"
    /\ DOMAIN models # {}

\* this step is one of the four runs of run_full_training
RunStep == rft \in {"GCN", "GAT", "GraphSAGE", "LinkPred"}
\* the step keeps every entry of self.models and self.results
EntriesKept ==
    /\ \A k \in DOMAIN results : k \in DOMAIN results' /\ results'[k] = results[k]
    /\ \A k \in DOMAIN models : k \in DOMAIN models' /\ models'[k] = models[k]

\* C16: in run_full_training an exception in one architecture's
\* node-classification run or in link prediction is caught: that run adds
\* no entry to results or models, the next run (after the last, the saving)
\* follows whatever the run did, and the entries of earlier runs are kept.
C16_RunsIsolated ==
    [][RunStep =>
          /\ t_call'.returned = "raised" => NothingRecorded
          /\ rft' = (IF rft = "GCN" THEN "GAT"
                     ELSE IF rft = "GAT" THEN "GraphSAGE"
                     ELSE IF rft = "GraphSAGE" THEN "LinkPred" ELSE "save")
          /\ EntriesKept]_vars

\* run_full_training has ended after a run that raised and a run that
\* recorded a model
C16_Witness ==
    /\ rft = "done" /\ t_call.returned = "True"
    /\ DOMAIN models # {}
    /\ \E model_type \in {"GCN", "GAT", "GraphSAGE"} :
          ModelKey(model_type, TargetGraph) \notin DOMAIN models

\* the keys of the node-classification records
NodeKeys(d) == {k \in DOMAIN d : k[1] \in {"GCN", "GAT", "GraphSAGE"}}

\* C19: a model and its result record enter self.models and self.results
\* only in a train_node_classification call that has run all 200 epochs and
\* the test evaluation, and they enter together; save_results writes
\* parameter files only for models that have such a result record.
C19_RecordedAfterEvaluation ==
    [][/\ \A k \in DOMAIN models' :
            (k \notin DOMAIN models \/ models'[k] # models[k]) =>
                /\ t_call'.op = "train_node_classification"
                /\ t_call'.epochs = 200 /\ t_call'.evaluated
                /\ k \in DOMAIN results' /\ results'[k].train_losses = 200
       /\ \A k \in NodeKeys(results') :
            (k \notin DOMAIN results \/ results'[k] # results[k]) =>
                /\ t_call'.op = "train_node_classification"
                /\ t_call'.epochs = 200 /\ t_call'.evaluated
                /\ k \in DOMAIN models'
       /\ saved'.model_files \subseteq NodeKeys(results')
       /\ \A k \in saved'.model_files : results'[k].train_losses = 200]_vars

\* save_results has written the parameter file of a trained model while a
\* link prediction record, which has no model, was held
C19_Witness ==
    /\ saved.model_files # {}
    /\ \E k \in DOMAIN results : k[1] = "LinkPred"
    /\ \E k \in saved.model_files : results[k].train_losses = 200

\* C20: create_event_similarity_graph(t) terminates after at most one
\* rebuild: a call on prepared features never recurses without end, it
\* builds twice exactly when its first build has fewer than 10 edges and
\* t > 0.05, the second build uses the threshold 0.05, and no third build
\* follows whatever the edge count of the second.
C20_AtMostOneRebuild ==
    sim_call # None =>
        /\ "diverged" \notin DOMAIN sim_call
        /\ sim_call.ok =>
            /\ sim_call.builds \in {1, 2}
            /\ sim_call.builds = 2 <=> (sim_call.first < 10 /\ sim_call.requested > 5)
            /\ sim_call.builds = 2 => sim_call.threshold = 5
            /\ sim_call.builds = 1 => sim_call.threshold = sim_call.requested

\* a call has rebuilt once, and the rebuilt graph still has fewer than 10 edges
C20_Witness ==
    /\ sim_call # None /\ sim_call.ok
    /\ sim_call.builds = 2
    /\ sim_call.requested > 5
    /\ Cardinality(sim_call.G.edges) < 10

\* self.data_dir is None, or names a directory that is missing or holds no CSV file
NoCsv(d) ==
    \/ d = None
    \/ ~d.exists
    \/ \A k \in DOMAIN d.files : ~IsCsv(d.files[k].name)

\* C17: when no probed directory holds a CSV file (self.data_dir is None),
\* or the configured directory is missing or holds no CSV file, the run is
\* a hard stop: load_data returns False, run_full_construction returns
\* False after it, and no feature block, no graph, no graph file and no
\* graph_metadata.json is produced.
C17_HardStop ==
    NoCsv(data_dir) =>
        /\ ~loaded /\ selected_file = None /\ df = <<>>
        /\ rfc.pc \in {"idle", "done"}
        /\ rfc.pc = "done" => rfc.returned = "False"
        /\ tfidf_features = None /\ categorical_features = None /\ numerical_features = None
        /\ graphs = EmptyMap
        /\ output.files = {} /\ output.metadata = None

\* run_full_construction has returned False on a directory that exists and
\* holds a file, but no CSV file
C17_Witness ==
    /\ data_dir # None /\ data_dir.exists /\ Len(data_dir.files) > 0
    /\ NoCsv(data_dir)
    /\ rfc.pc = "done" /\ rfc.returned = "False"

\* C18: when the data directory holds several CSV files, load_data reads
\* the most recently modified one.
C18_ReadsMostRecentlyModified ==
    (loaded /\ selected_file # None /\ Len(FilesFound(data_dir)) > 1) =>
        \A k \in DOMAIN data_dir.files :
            IsCsv(data_dir.files[k].name) => data_dir.files[k].mtime <= selected_file.mtime

\* C14: if a feature-preparation stage (textual, categorical or numerical)
\* fails, the construction is not halted: run_full_construction goes on to
\* build graphs and does not end without any.
C14_StageFailureDoesNotHalt ==
    (rfc.raised # "none" /\ rfc.pc = "done") =>
        /\ rfc.returned = "True"
        /\ DOMAIN graphs # {}

\* both graph builders of the run have returned
BothAttempted == sim_call # None /\ hetero_call # None
\* the graph types the builders of the run have built
Built ==
    (IF sim_call # None /\ sim_call.ok THEN {"event_similarity"} ELSE {})
    \cup (IF hetero_call # None /\ hetero_call.ok THEN {"heterogeneous"} ELSE {})

\* C15: in a run of run_full_construction on a new GraphConstructor the
\* failure of one graph type does not stop the other: after the similarity
\* builder the heterogeneous builder is called whatever the first returned,
\* each builder fails on its own condition only, the run returns True
\* exactly when at least one type was built, and self.graphs, the graph
\* files and the graphs_created list of the metadata hold the built types
\* and no other.
C15_GraphTypesIndependent ==
    /\ rfc.pc = "heterogeneous" => sim_call # None /\ hetero_call = None
    /\ rfc.pc = "finish" => BothAttempted
    /\ (rfc.pc = "done" /\ rfc.returned = "True") => BothAttempted
    /\ BothAttempted =>
        /\ DOMAIN graphs = Built
        /\ rfc.graphs_created = Cardinality(Built)
        /\ sim_call.ok <=> ~(Len(df) = 0)
        /\ hetero_call.ok <=> ~HeteroRaises(df, columns)
        /\ rfc.pc = "done" =>
            /\ rfc.returned = "True" <=> Built # {}
            /\ rfc.returned = "True" =>
                /\ output.files = Built
                /\ output.metadata.graphs_created = Built
    /\ (rfc.pc = "done" /\ ~BothAttempted) =>
        /\ rfc.returned = "False"
        /\ graphs = EmptyMap
        /\ output.files = {} /\ output.metadata = None

\* a run has returned True in which the similarity builder failed and the
\* heterogeneous graph was built, saved and listed
C15_Witness ==
    /\ rfc.pc = "done" /\ rfc.returned = "True"
    /\ BothAttempted /\ ~sim_call.ok /\ hetero_call.ok
    /\ output.files = {"heterogeneous"}
    /\ output.metadata.graphs_created = {"heterogeneous"}

\* the square of similarity s compared with the square of the threshold t / 100
SimilarityAbove(s, t) == s[1] * 10000 > t * t * s[2]
SimilarityEquals(s, t) == s[1] * 10000 = t * t * s[2]

\* C21: the edge set of the graph create_event_similarity_graph(t) returns
\* is exactly the set of pairs {i, j}, i # j, whose entry of the similarity
\* matrix of the last build is strictly greater than the threshold that
\* build used: no self-loop, every pair once, and no edge for a pair whose
\* similarity equals the threshold.
C21_EdgesAreThePairsAbove ==
    SimDone(sim_call) =>
        LET n == sim_call.G.nodes
            sim == sim_call.similarity_matrix
            t == sim_call.threshold
        IN /\ n = Len(df)
           /\ \A e \in sim_call.G.edges : e[1] \in 1..n /\ e[2] \in 1..n /\ e[1] < e[2]
           /\ \A i, j \in 1..n :
                i < j => (<<i, j>> \in sim_call.G.edges <=> SimilarityAbove(sim[i][j], t))
           /\ \A i, j \in 1..n :
                (i < j /\ SimilarityEquals(sim[i][j], t)) => <<i, j>> \notin sim_call.G.edges
           /\ t = (IF sim_call.builds > 1 THEN 5 ELSE sim_call.requested)

\* a returned graph with an edge, and a pair left out whose similarity
\* equals the threshold used
C21_Witness ==
    /\ SimDone(sim_call)
    /\ sim_call.G.edges # {}
    /\ \E i, j \in 1..sim_call.G.nodes :
         /\ i < j
         /\ SimilarityEquals(sim_call.similarity_matrix[i][j], sim_call.threshold)
         /\ <<i, j>> \notin sim_call.G.edges

\* C22: when no pair exceeds the threshold finally used,
\* create_event_similarity_graph on the prepared table does not raise: it
\* returns and stores under 'event_similarity' a graph object with N nodes,
\* the N-row feature matrix and an empty edge index, with the statistics
\* edges = 0 and density = 0.
C22_EdgelessGraphStored ==
    (Prepared /\ numerical_features # None /\ sim_call # None) =>
        /\ sim_call.ok
        /\ sim_call.G.edges = {} =>
            /\ "event_similarity" \in DOMAIN graphs
            /\ graphs["event_similarity"].kind = "Data"
            /\ graphs["event_similarity"].num_nodes = Len(df)
            /\ graphs["event_similarity"].x =
                  <<Len(df), tfidf_features.shape[2] + categorical_features.shape[2]
                                + numerical_features.shape[2]>>
            /\ graphs["event_similarity"].edge_index = {}
            /\ stats["event_similarity"].nodes = Len(df)
            /\ stats["event_similarity"].edges = 0
            /\ stats["event_similarity"].density = <<0, 1>>

\* [number of events, mean free flag, number of distinct categories] of the
\* events whose column col holds name
CountFreeCategories(col, name) ==
    LET events == EntityEvents(df, columns, col, name) IN
    <<EventCount(events), MeanFree(df, columns, events), CategoryCount(df, columns, events)>>

\* C23: the feature vector of every organizer node and of every venue node
\* is, in this order, [number of its events, mean free flag of its events,
\* number of distinct categories among its events].
C23_NodeFeatureOrder ==
    HeteroDone =>
        /\ \A k \in DOMAIN hetero_call.organizers :
              graphs["heterogeneous"].organizer.x[k]
                  = CountFreeCategories("organizer", hetero_call.organizers[k])
        /\ \A k \in DOMAIN hetero_call.venues :
              graphs["heterogeneous"].venue.x[k]
                  = CountFreeCategories("location", hetero_call.venues[k])

\* the combined text of row i, and whether a text holds a word that the
\* vectorizer indexes (two letters or more, no stop word)
CombinedTextOf(i) == df[i]["combined_text"]
Indexable(text) == \E k \in DOMAIN text : text[k] \in TokenWords \ StopWords

\* C24: whenever every combined title/description/category string is
\* empty, or the vectorizer raises (no text holds a word it indexes),
\* prepare_text_features sets the textual block to the N-row all-ones
\* matrix of width exactly 10; a block that is not the TF-IDF matrix of the
\* texts never has another width.
C24_DummyWidthTen ==
    Prepared =>
        LET N == Len(df)
            fallback == \/ \A i \in 1..N : CombinedTextOf(i) = <<>>
                        \/ \A i \in 1..N : ~Indexable(CombinedTextOf(i))
        IN IF fallback
           THEN /\ tfidf_features.shape = <<N, 10>>
                /\ Cardinality(tfidf_features.names) = 10
                /\ Len(tfidf_features.m) = N
                /\ \A i \in 1..N : \A g \in tfidf_features.names : tfidf_features.m[i][g] = 1
           ELSE /\ tfidf_features.shape = <<N, Cardinality(tfidf_features.names)>>
                /\ \A g \in tfidf_features.names : \A k \in DOMAIN g : g[k] \in TokenWords \ StopWords
                /\ \A g \in tfidf_features.names : \E i \in 1..N : tfidf_features.m[i][g] > 0

\* the vectorizer has raised on texts that are not all empty, and the
\* block is the all-ones matrix of width 10
C24_Witness ==
    /\ Prepared /\ Len(df) >= 2
    /\ \E i \in DOMAIN df : CombinedTextOf(i) # <<>>
    /\ \E i \in DOMAIN df : CombinedTextOf(i) = <<>>
    /\ \A i \in DOMAIN df : ~Indexable(CombinedTextOf(i))
    /\ tfidf_features.shape = <<Len(df), 10>>

\* ======================================================================
\* Claims about the training loop (specification TrainSpec)
\* ======================================================================
\* a call of train_node_classification that ran its training loop to the end
Trained == t_call # None /\ t_call.op = "train_node_classification" /\ t_call.returned = "results"

\* C25: in train_node_classification the validation accuracy is evaluated
\* at the epochs 0, 20, ..., 180 only, which gives 10 validation values for
\* 200 recorded loss values; the model is in inference mode during every
\* evaluation (the test evaluation included) and in training mode at every
\* gradient step.
C25_ValidationEveryTwenty ==
    Trained =>
        LET tr == t_call.training
            key == ModelKey(t_call.model_type, t_call.graph_name)
        IN /\ {ev[1] : ev \in tr.evaluations} = {20 * k : k \in 0..9}
           /\ tr.val_accuracies = 10 /\ tr.train_losses = 200
           /\ results[key].val_accuracies = tr.val_accuracies
           /\ results[key].train_losses = tr.train_losses
           /\ \A ev \in tr.evaluations : ev[2] = "eval"
           /\ tr.test_mode = "eval"
           /\ {sp[1] : sp \in tr.steps} = 0..199
           /\ \A sp \in tr.steps : sp[2] = "train"

\* a training loop has run to the end: the gradient step of epoch 1, which
\* follows the first validation, and that of epoch 199 are recorded
C25_Witness ==
    /\ Trained
    /\ <<0, "eval">> \in t_call.training.evaluations
    /\ <<1, "train">> \in t_call.training.steps
    /\ <<199, "train">> \in t_call.training.steps

\* C26: after prepare_node_classification_data every node label is a valid
\* class index for the model train_node_classification builds: each label
\* is smaller than num_classes, the number of distinct labels and the
\* output width of the model, in the clustering branch and in the
\* random-label branch alike.
C26_LabelsAreClassIndices ==
    NodeDataPrepared =>
        \A i \in 1..UsedGraph.num_nodes : UsedGraph.y[i] < NumClasses(UsedGraph)

\* ======================================================================
\* Claims about run_full_training (specification FullTrainingSpec)
\* ======================================================================
\* the labels and the masks stored on the target graph
LabelsAndMasks(d) ==
    LET g == Get(d, TargetGraph) IN <<g.y, g.train_mask, g.val_mask, g.test_mask>>

\* C27: within one run_full_training the three architectures GCN, GAT and
\* GraphSAGE are trained and evaluated on the same synthetic labels and the
\* same train/validation/test masks of the target graph.  Stated on every
\* architecture's run that follows the run of another: both trained, and
\* the labels and masks the second trained on are those of the first.
C27_SameLabelsAndMasks ==
    [][(rft \in {"GAT", "GraphSAGE"} /\ t_call.returned = "results"
          /\ t_call'.returned = "results")
         => LabelsAndMasks(t_graphs') = LabelsAndMasks(t_graphs)]_vars

\* the edge list and the node features of the graph stored under name
\* (edge_index None is told apart from an edge_index without columns)
EdgesAndFeatures(d, name) ==
    LET g == Get(d, name) IN
    IF g.kind = "Data" THEN <<g.edge_index, g.edge_index_is_none, g.x>> ELSE <<>>

\* C28: train_link_prediction leaves the graph stored in self.graphs
\* unchanged (same edge list and node features), so that a
\* train_node_classification call made after it on the same graph sees the
\* graph a call made before it saw.  (Specification TrainSpec.)
C28_LinkPredictionKeepsGraph ==
    [][(calls' = calls + 1 /\ t_call'.op = "train_link_prediction" /\ t_call'.used # "")
          => EdgesAndFeatures(t_graphs', t_call'.used) = EdgesAndFeatures(t_graphs, t_call'.used)]_vars

\* ======================================================================
\* Claims about repeated builds of the similarity graph (specification Spec)
\* ======================================================================
\* the cosine similarity of the textual rows of the events i and j
CosineOf(i, j) == Cosine(tfidf_features.m[i], tfidf_features.m[j], tfidf_features.names)
\* the pairs of events whose cosine similarity is greater than t
PairsAbove(t) == {e \in AllPairs(Len(df)) : SimilarityAbove(CosineOf(e[1], e[2]), t)}
\* the threshold of the build that is returned for the requested t
ThresholdFor(t) == IF Cardinality(PairsAbove(t)) < 10 /\ t > 5 THEN 5 ELSE t

\* C29 (as stated): two calls of create_event_similarity_graph on the same
\* prepared table with the same threshold return the same edge set and the
\* same edge weights, for every table, those whose textual block has
\* width 1 included.  Stated on every pair of successive calls (load_data
\* and prepare_features clear sim_call).
C29_SameGraphTwice ==
    [][(SimDone(sim_call) /\ SimDone(sim_call') /\ sim_call'.requested = sim_call.requested)
          => /\ sim_call'.G.edges = sim_call.G.edges
             /\ sim_call'.G.weight = sim_call.G.weight]_vars

\* C29 (amended): when the textual block is wider than one column, the
\* edge set and the edge weights create_event_similarity_graph returns are
\* determined by the prepared table and the threshold alone: the edges are
\* the pairs whose cosine similarity exceeds the threshold (0.05 when fewer
\* than 10 pairs exceed a higher one), the weights are those cosines.  Two
\* calls on the same table with the same threshold so return the same graph.
C29_GraphDeterminedByTable ==
    (SimDone(sim_call) /\ TextWidth > 1) =>
        LET t == ThresholdFor(sim_call.requested) IN
        /\ sim_call.G.edges = PairsAbove(t)
        /\ DOMAIN sim_call.G.weight = PairsAbove(t)
        /\ \A e \in PairsAbove(t) : sim_call.G.weight[e] = CosineOf(e[1], e[2])

\* over a textual block wider than one column a call has returned the
\* graph of a relaxed build, with more edges than its first build had
C29_Witness ==
    /\ SimDone(sim_call) /\ TextWidth > 1
    /\ sim_call.builds = 2
    /\ sim_call.G.edges # {}
    /\ sim_call.first < Cardinality(sim_call.G.edges)

\* the textual block is the all-ones dummy matrix
DummyBlock == Prepared /\ tfidf_features = DummyFeatures(Len(df))

\* C30: when the textual block is the all-ones dummy matrix, every pair of
\* events has similarity 1, so that for every threshold below 1
\* create_event_similarity_graph returns the complete graph on the N
\* events, with N(N-1)/2 edges, whether or not the build was relaxed.
\* (Specification ConstructionSpec, where the table may have no row; under
\* Spec, whose tables have a row, the formula holds.)
C30_DummyBlockCompleteGraph ==
    (DummyBlock /\ numerical_features # None /\ sim_call # None) =>
        LET N == Len(df) IN
        /\ sim_call.ok
        /\ \A i, j \in 1..N : sim_call.similarity_matrix[i][j] = One
        /\ sim_call.G.nodes = N
        /\ sim_call.G.edges = AllPairs(N)
        /\ 2 * Cardinality(sim_call.G.edges) = N * (N - 1)
        /\ stats["event_similarity"].edges = Cardinality(AllPairs(N))

====
